---- MODULE Spec2Model ----
(***************************************************************************)
(* AliEmcalIterableContainer: an index adapter over an AliEmcalContainer   *)
(* with an optional table of accepted indices, and its bidirectional       *)
(* iterator (PWG/EMCAL/EMCALbase/AliEmcalIterableContainer.cxx).           *)
(***************************************************************************)
EXTENDS Integers, Sequences, FiniteSets, TLC

MaxN == 3          \* largest number of entries the source container holds
PosSlack == 1      \* how far past -1 and MaxN an iterator position may run

Adapters == {"A", "B"}          \* adapter objects of the caller
Iters == {"it", "ret"}          \* iterator objects of the caller
kNull == 0                      \* the NULL TObject pointer
kCont == "cont"                 \* address of the one source container

VARIABLES
  src,        \* the source AliEmcalContainer
  adapters,   \* constructed adapter object -> its fields
  iters,      \* constructed iterator object -> its fields
  loop,       \* the traversal loop being run
  last,       \* the last call made and what it returned
  crashed     \* the process died on an invalid memory access

vars == <<src, adapters, iters, loop, last, crashed>>

(***************************************************************************)
(* The source container.  AliEmcalContainer is not part of the sources; it *)
(* is the collaborator of spec section 6: count(), acceptedCount(),        *)
(* accepts(position), at(position).                                        *)
(***************************************************************************)
\* The object held at position p is 10 + p: no object is a position.
Entries(n) == [k \in 1 .. n |-> 10 + (k - 1)]

SourcesOfSize(n) ==
  { [ent |-> Entries(n), acc |-> a, nAcc |-> c] :
      a \in SUBSET (0 .. (n - 1)), c \in 0 .. MaxN }

SourceStates == UNION { SourcesOfSize(n) : n \in 0 .. MaxN }

GetNEntries(s) == Len(s.ent)

GetNAcceptEntries(s) == s.nAcc

AcceptObject(s, index) == index \in s.acc

ContAt(s, p) == IF p >= 0 /\ p < Len(s.ent) THEN s.ent[p + 1] ELSE kNull

(***************************************************************************)
(* TArrayI, the type of fAcceptIndices, as the adapter uses it.  An index  *)
(* that fails BoundsOk is redirected to element 0 by the writing           *)
(* operator[], and reads as 0 through the const operator[].                *)
(***************************************************************************)
ArrSet(n) == [k \in 1 .. n |-> 0]

ArrInBounds(arr, i) == i >= 0 /\ i < Len(arr)

ArrAt(arr, i) == IF ArrInBounds(arr, i) THEN arr[i + 1] ELSE 0

\* fAcceptIndices[i] = v.  With an empty array fArray is the null pointer and
\* the redirected store to element 0 is an invalid write: fault.
ArrStore(arr, i, v) ==
  IF ArrInBounds(arr, i) THEN [arr |-> [arr EXCEPT ![i + 1] = v], fault |-> FALSE]
  ELSE IF Len(arr) > 0 THEN [arr |-> [arr EXCEPT ![1] = v], fault |-> FALSE]
  ELSE [arr |-> arr, fault |-> TRUE]

(***************************************************************************)
(* BuildAcceptIndices: the loop over index with acceptCounter.  oob counts *)
(* the stores whose index was at or beyond the length of the table.        *)
(***************************************************************************)
RECURSIVE BuildScan(_, _, _, _, _)
BuildScan(s, index, acceptCounter, arr, oob) ==
  IF ~(index < GetNEntries(s)) THEN [arr |-> arr, oob |-> oob, fault |-> FALSE]
  ELSE IF AcceptObject(s, index)
    THEN LET st == ArrStore(arr, acceptCounter, index)
             o == IF ArrInBounds(arr, acceptCounter) THEN oob ELSE oob + 1
         IN IF st.fault THEN [arr |-> arr, oob |-> o, fault |-> TRUE]
            ELSE BuildScan(s, index + 1, acceptCounter + 1, st.arr, o)
    ELSE BuildScan(s, index + 1, acceptCounter, arr, oob)

BuildAcceptIndices(s) == BuildScan(s, 0, 0, ArrSet(GetNAcceptEntries(s)), 0)

(***************************************************************************)
(* The adapter: its fields, GetEntries and operator[].                     *)
(***************************************************************************)
Adapter(cont, idx, useAccept) ==
  [fkContainer |-> cont, fAcceptIndices |-> idx, fUseAccepted |-> useAccept]

GetEntries(ad, s) ==
  IF ad.fUseAccepted THEN Len(ad.fAcceptIndices) ELSE GetNEntries(s)

\* operator[] without the index map: the index is passed to the container
\* also when accepted objects are iterated.
AtUnmapped(ad, s, index) ==
  IF index < 0 \/ index >= GetEntries(ad, s)
    THEN [res |-> kNull, rd |-> {}]
    ELSE [res |-> ContAt(s, index), rd |-> {"source"}]

\* operator[] with the range test index > GetEntries().
AtOffByOne(ad, s, index) ==
  IF index < 0 \/ index > GetEntries(ad, s)
    THEN [res |-> kNull, rd |-> {}]
  ELSE IF ad.fUseAccepted
    THEN [res |-> ContAt(s, ArrAt(ad.fAcceptIndices, index)),
          rd |-> {"table", "source"} \cup
                 (IF ArrInBounds(ad.fAcceptIndices, index) THEN {} ELSE {"outside"})]
    ELSE [res |-> ContAt(s, index), rd |-> {"source"}]

\* operator[]: the object returned and what was read to get it ("outside": the
\* table was indexed outside its bounds).
At(ad, s, index) ==
  IF index < 0 \/ index >= GetEntries(ad, s)
    THEN [res |-> kNull, rd |-> {}]
  ELSE IF ad.fUseAccepted
    THEN [res |-> ContAt(s, ArrAt(ad.fAcceptIndices, index)),
          rd |-> {"table", "source"} \cup
                 (IF ArrInBounds(ad.fAcceptIndices, index) THEN {} ELSE {"outside"})]
    ELSE [res |-> ContAt(s, index), rd |-> {"source"}]

\* The copy constructor.
CopyOf(ref) == Adapter(ref.fkContainer, ref.fAcceptIndices, ref.fUseAccepted)

\* operator= that leaves fUseAccepted as it is.
AssignFromKeepsFlag(this, ref, self) ==
  IF ~self THEN Adapter(ref.fkContainer, ref.fAcceptIndices, this.fUseAccepted)
  ELSE this

\* operator=: self is the test this != &ref.
AssignFrom(this, ref, self) ==
  IF ~self THEN Adapter(ref.fkContainer, ref.fAcceptIndices, ref.fUseAccepted)
  ELSE this

(***************************************************************************)
(* The iterator: its fields and operators.                                 *)
(***************************************************************************)
Iterator(cont, currentpos, forward) ==
  [fkData |-> cont, fCurrent |-> currentpos, fForward |-> forward]

IterNotEquals(x, ref) == x.fCurrent # ref.fCurrent

\* operator++() that decrements whatever the direction.
IterIncAlwaysBack(x) == [x EXCEPT !.fCurrent = @ - 1]

\* operator++() that increments whatever the direction.
IterIncAlwaysAhead(x) == [x EXCEPT !.fCurrent = @ + 1]

\* operator++()
IterInc(x) ==
  IF x.fForward THEN [x EXCEPT !.fCurrent = @ + 1] ELSE [x EXCEPT !.fCurrent = @ - 1]

\* operator--() that does not move a forward iterator below -1.
IterDecClamped(x) ==
  IF x.fForward THEN [x EXCEPT !.fCurrent = IF @ > 0 - 1 THEN @ - 1 ELSE @]
  ELSE [x EXCEPT !.fCurrent = @ + 1]

\* operator--()
IterDec(x) ==
  IF x.fForward THEN [x EXCEPT !.fCurrent = @ - 1] ELSE [x EXCEPT !.fCurrent = @ + 1]

\* operator++(int) that copies the iterator after moving it.
IterPostIncCopiesLate(x) ==
  LET moved == IterInc(x)
  IN [tmp |-> Iterator(moved.fkData, moved.fCurrent, moved.fForward), this |-> moved]

\* operator++(int): tmp is the copy returned, this the iterator afterwards.
IterPostInc(x) ==
  LET tmp == Iterator(x.fkData, x.fCurrent, x.fForward)
  IN [tmp |-> tmp, this |-> IterInc(x)]

\* operator--(int)
IterPostDec(x) ==
  LET tmp == Iterator(x.fkData, x.fCurrent, x.fForward)
  IN [tmp |-> tmp, this |-> IterDec(x)]

\* operator*()
IterDeref(x, ads, s) == At(ads[x.fkData], s, x.fCurrent)

\* begin(), end(), rbegin(), rend() of the adapter (declared in the header).
IterBegin(a, ads, s) == Iterator(a, 0, TRUE)
IterEnd(a, ads, s) == Iterator(a, GetEntries(ads[a], s), TRUE)
IterRBegin(a, ads, s) == Iterator(a, GetEntries(ads[a], s) - 1, FALSE)
IterREnd(a, ads, s) == Iterator(a, -1, FALSE)

(***************************************************************************)
(* The program state.                                                      *)
(***************************************************************************)
IndexRange == (0 - 1 - PosSlack) .. (MaxN + PosSlack)

NoIter == Iterator("-", 0, TRUE)

Call(op, obj, dst, arg, res, rd, oob, old) ==
  [op |-> op, obj |-> obj, dst |-> dst, arg |-> arg, res |-> res, rd |-> rd,
   oob |-> oob, old |-> old]

Mark(op, obj) == Call(op, obj, "-", 0, 0, {}, 0, NoIter)

Idle == [pc |-> "idle", a |-> "-", fwd |-> TRUE, it |-> NoIter,
         pos |-> <<>>, val |-> <<>>]

Ready == ~crashed /\ loop.pc = "idle"

Init ==
  /\ src \in SourceStates
  /\ adapters = <<>>
  /\ iters = <<>>
  /\ loop = Idle
  /\ last = Mark("init", "-")
  /\ crashed = FALSE

(***************************************************************************)
(* Adapter operations.                                                     *)
(***************************************************************************)
\* AliEmcalIterableContainer(cont, useAccept) constructing object a.
Construct(a, useAccept) ==
  /\ Ready
  /\ a \notin DOMAIN adapters
  /\ LET b == IF useAccept THEN BuildAcceptIndices(src)
                           ELSE [arr |-> <<>>, oob |-> 0, fault |-> FALSE]
     IN /\ crashed' = b.fault
        /\ IF b.fault
             THEN UNCHANGED adapters
             ELSE adapters' = (a :> Adapter(kCont, b.arr, useAccept)) @@ adapters
        /\ last' = Call("Construct", a, "-", 0, 0, {}, b.oob, NoIter)
  /\ UNCHANGED <<src, iters, loop>>

\* AliEmcalIterableContainer(ref) constructing object a.
CopyConstruct(a, ref) ==
  /\ Ready
  /\ a \notin DOMAIN adapters
  /\ ref \in DOMAIN adapters
  /\ adapters' = (a :> CopyOf(adapters[ref])) @@ adapters
  /\ last' = Call("Copy", a, ref, 0, 0, {}, 0, NoIter)
  /\ UNCHANGED <<src, iters, loop, crashed>>

\* a = ref
Assign(a, ref) ==
  /\ Ready
  /\ a \in DOMAIN adapters
  /\ ref \in DOMAIN adapters
  /\ adapters' = [adapters EXCEPT ![a] = AssignFrom(adapters[a], adapters[ref], a = ref)]
  /\ last' = Call("Assign", a, ref, 0, 0, {}, 0, NoIter)
  /\ UNCHANGED <<src, iters, loop, crashed>>

\* a = AliEmcalIterableContainer(cont, useAccept): a third, temporary adapter
\* is constructed and assigned to a.
AssignFresh(a, useAccept) ==
  /\ Ready
  /\ a \in DOMAIN adapters
  /\ LET b == IF useAccept THEN BuildAcceptIndices(src)
                           ELSE [arr |-> <<>>, oob |-> 0, fault |-> FALSE]
     IN /\ crashed' = b.fault
        /\ IF b.fault
             THEN UNCHANGED adapters
             ELSE adapters' = [adapters EXCEPT ![a] =
                    AssignFrom(adapters[a], Adapter(kCont, b.arr, useAccept), FALSE)]
        /\ last' = Call("AssignFresh", a, "-", 0, 0, {}, b.oob, NoIter)
  /\ UNCHANGED <<src, iters, loop>>

\* a.GetEntries()
CallGetEntries(a) ==
  /\ Ready
  /\ a \in DOMAIN adapters
  /\ last' = Call("GetEntries", a, "-", 0, GetEntries(adapters[a], src), {}, 0, NoIter)
  /\ UNCHANGED <<src, adapters, iters, loop, crashed>>

\* a[index]
CallAt(a, index) ==
  /\ Ready
  /\ a \in DOMAIN adapters
  /\ LET r == At(adapters[a], src, index)
     IN last' = Call("At", a, "-", index, r.res, r.rd, 0, NoIter)
  /\ UNCHANGED <<src, adapters, iters, loop, crashed>>

\* The owner of the source container changes it.  The acceptance of one
\* entry flips:
SourceAccept ==
  /\ Ready
  /\ \E p \in 0 .. (GetNEntries(src) - 1) :
       src' = [src EXCEPT !.acc = IF p \in @ THEN @ \ {p} ELSE @ \cup {p}]
  /\ last' = Mark("Mutate", "-")
  /\ UNCHANGED <<adapters, iters, loop, crashed>>

\* an entry is added at the end, or the last entry is removed:
SourceResize ==
  /\ Ready
  /\ LET n == GetNEntries(src)
     IN \/ n < MaxN /\ src' = [src EXCEPT !.ent = Entries(n + 1)]
        \/ n > 0 /\ src' = [src EXCEPT !.ent = Entries(n - 1), !.acc = @ \ {n - 1}]
  /\ last' = Mark("Mutate", "-")
  /\ UNCHANGED <<adapters, iters, loop, crashed>>

\* the accepted count it reports changes:
SourceReport ==
  /\ Ready
  /\ \E c \in (0 .. MaxN) \ {src.nAcc} : src' = [src EXCEPT !.nAcc = c]
  /\ last' = Mark("Mutate", "-")
  /\ UNCHANGED <<adapters, iters, loop, crashed>>

MutateSource == SourceAccept \/ SourceResize \/ SourceReport

(***************************************************************************)
(* Iterator operations.  i and j name iterator objects of the caller; a    *)
(* position is kept within IndexRange by the guards.                       *)
(***************************************************************************)
SetIter(i, x) == iters' = (i :> x) @@ iters

\* i = a.begin()
Begin(a, i) ==
  /\ Ready
  /\ a \in DOMAIN adapters
  /\ SetIter(i, IterBegin(a, adapters, src))
  /\ last' = Call("begin", i, "-", 0, 0, {}, 0, NoIter)
  /\ UNCHANGED <<src, adapters, loop, crashed>>

\* i = a.end()
End(a, i) ==
  /\ Ready
  /\ a \in DOMAIN adapters
  /\ SetIter(i, IterEnd(a, adapters, src))
  /\ last' = Call("end", i, "-", 0, 0, {}, 0, NoIter)
  /\ UNCHANGED <<src, adapters, loop, crashed>>

\* i = a.rbegin()
RBegin(a, i) ==
  /\ Ready
  /\ a \in DOMAIN adapters
  /\ SetIter(i, IterRBegin(a, adapters, src))
  /\ last' = Call("rbegin", i, "-", 0, 0, {}, 0, NoIter)
  /\ UNCHANGED <<src, adapters, loop, crashed>>

\* i = a.rend()
REnd(a, i) ==
  /\ Ready
  /\ a \in DOMAIN adapters
  /\ SetIter(i, IterREnd(a, adapters, src))
  /\ last' = Call("rend", i, "-", 0, 0, {}, 0, NoIter)
  /\ UNCHANGED <<src, adapters, loop, crashed>>

\* ++i
PreInc(i) ==
  /\ Ready
  /\ i \in DOMAIN iters
  /\ IterInc(iters[i]).fCurrent \in IndexRange
  /\ iters' = [iters EXCEPT ![i] = IterInc(@)]
  /\ last' = Call("PreInc", i, "-", 0, 0, {}, 0, iters[i])
  /\ UNCHANGED <<src, adapters, loop, crashed>>

\* --i
PreDec(i) ==
  /\ Ready
  /\ i \in DOMAIN iters
  /\ IterDec(iters[i]).fCurrent \in IndexRange
  /\ iters' = [iters EXCEPT ![i] = IterDec(@)]
  /\ last' = Call("PreDec", i, "-", 0, 0, {}, 0, iters[i])
  /\ UNCHANGED <<src, adapters, loop, crashed>>

\* j = i++
PostInc(i, j) ==
  /\ Ready
  /\ i \in DOMAIN iters
  /\ i # j
  /\ LET r == IterPostInc(iters[i])
     IN /\ r.this.fCurrent \in IndexRange
        /\ iters' = (j :> r.tmp) @@ [iters EXCEPT ![i] = r.this]
  /\ last' = Call("PostInc", i, j, 0, 0, {}, 0, iters[i])
  /\ UNCHANGED <<src, adapters, loop, crashed>>

\* j = i--
PostDec(i, j) ==
  /\ Ready
  /\ i \in DOMAIN iters
  /\ i # j
  /\ LET r == IterPostDec(iters[i])
     IN /\ r.this.fCurrent \in IndexRange
        /\ iters' = (j :> r.tmp) @@ [iters EXCEPT ![i] = r.this]
  /\ last' = Call("PostDec", i, j, 0, 0, {}, 0, iters[i])
  /\ UNCHANGED <<src, adapters, loop, crashed>>

\* the dereference of i
Deref(i) ==
  /\ Ready
  /\ i \in DOMAIN iters
  /\ LET r == IterDeref(iters[i], adapters, src)
     IN last' = Call("Deref", i, "-", iters[i].fCurrent, r.res, r.rd, 0, iters[i])
  /\ UNCHANGED <<src, adapters, iters, loop, crashed>>

(***************************************************************************)
(* The traversal loops                                                     *)
(*   for(it = a.begin();  it != a.end();  ++it) visit the object at it     *)
(*   for(it = a.rbegin(); it != a.rend(); ++it) visit the object at it     *)
(* one action per evaluation of the loop condition.  The loop owns the     *)
(* thread: nothing else runs until it is over.                             *)
(***************************************************************************)
LoopEnd == IF loop.fwd THEN IterEnd(loop.a, adapters, src)
                       ELSE IterREnd(loop.a, adapters, src)

ForwardLoop(a) ==
  /\ Ready
  /\ a \in DOMAIN adapters
  /\ loop' = [pc |-> "run", a |-> a, fwd |-> TRUE,
              it |-> IterBegin(a, adapters, src), pos |-> <<>>, val |-> <<>>]
  /\ last' = Mark("loop", a)
  /\ UNCHANGED <<src, adapters, iters, crashed>>

BackwardLoop(a) ==
  /\ Ready
  /\ a \in DOMAIN adapters
  /\ loop' = [pc |-> "run", a |-> a, fwd |-> FALSE,
              it |-> IterRBegin(a, adapters, src), pos |-> <<>>, val |-> <<>>]
  /\ last' = Mark("loop", a)
  /\ UNCHANGED <<src, adapters, iters, crashed>>

\* The condition holds: the body runs and the iterator advances.
LoopBody ==
  /\ ~crashed
  /\ loop.pc = "run"
  /\ IterNotEquals(loop.it, LoopEnd)
  /\ IterInc(loop.it).fCurrent \in IndexRange
  /\ loop' = [loop EXCEPT !.pos = Append(@, loop.it.fCurrent),
                          !.val = Append(@, IterDeref(loop.it, adapters, src).res),
                          !.it = IterInc(@)]
  /\ UNCHANGED <<src, adapters, iters, last, crashed>>

\* The condition fails: the loop is left.
LoopExit ==
  /\ ~crashed
  /\ loop.pc = "run"
  /\ ~IterNotEquals(loop.it, LoopEnd)
  /\ loop' = [loop EXCEPT !.pc = "done"]
  /\ UNCHANGED <<src, adapters, iters, last, crashed>>

\* The caller goes on after the loop.
LoopReturn ==
  /\ ~crashed
  /\ loop.pc = "done"
  /\ loop' = Idle
  /\ UNCHANGED <<src, adapters, iters, last, crashed>>

AdapterOps(A) ==
  \/ \E a \in A, useAccept \in BOOLEAN : Construct(a, useAccept)
  \/ \E a \in A : CallGetEntries(a)
  \/ \E a \in A, index \in IndexRange : CallAt(a, index)

CopyOps(A) ==
  \/ \E a, ref \in A : CopyConstruct(a, ref)
  \/ \E a, ref \in A : Assign(a, ref)
  \/ \E a \in A, useAccept \in BOOLEAN : AssignFresh(a, useAccept)

CursorOps(A, I) ==
  \/ \E a \in A, i \in I : Begin(a, i)
  \/ \E a \in A, i \in I : End(a, i)
  \/ \E a \in A, i \in I : RBegin(a, i)
  \/ \E a \in A, i \in I : REnd(a, i)
  \/ \E i \in I : PreInc(i)
  \/ \E i \in I : PreDec(i)
  \/ \E i \in I : Deref(i)

PostfixOps(I) ==
  \/ \E i, j \in I : PostInc(i, j)
  \/ \E i, j \in I : PostDec(i, j)

LoopOps(A) ==
  \/ \E a \in A : ForwardLoop(a)
  \/ \E a \in A : BackwardLoop(a)
  \/ LoopBody
  \/ LoopExit
  \/ LoopReturn

\* One adapter is built over a source and read.
NextBuild == AdapterOps({"A"})

SpecBuild == Init /\ [][NextBuild]_vars

\* Adapters are built, copied and assigned; the acceptance results of the
\* source change in between, so that the adapters come to hold different
\* tables.
NextCopy ==
  \/ \E a \in Adapters, useAccept \in BOOLEAN : Construct(a, useAccept)
  \/ CopyOps(Adapters)
  \/ SourceAccept

SpecCopy == Init /\ [][NextCopy]_vars

\* Iterators over one adapter.
NextIter ==
  \/ \E useAccept \in BOOLEAN : Construct("A", useAccept)
  \/ CursorOps({"A"}, Iters)
  \/ PostfixOps(Iters)

SpecIter == Init /\ [][NextIter]_vars

\* Traversal loops over one adapter, the source changing between loops.
NextLoop ==
  \/ \E useAccept \in BOOLEAN : Construct("A", useAccept)
  \/ LoopOps({"A"})
  \/ MutateSource

SpecLoop == Init /\ [][NextLoop]_vars /\ WF_vars(LoopBody) /\ WF_vars(LoopExit)

\* One adapter and one iterator are used while the source changes.
Next ==
  \/ AdapterOps({"A"})
  \/ CursorOps({"A"}, {"it"})
  \/ MutateSource

Spec == Init /\ [][Next]_vars

(***************************************************************************)
(* What the properties below speak of.                                     *)
(***************************************************************************)
\* The positions of the source that its predicate accepts.
AcceptedPositions(s) == { p \in 0 .. (GetNEntries(s) - 1) : AcceptObject(s, p) }

\* The source reports as accepted count the number of positions it accepts.
Consistent(s) == GetNAcceptEntries(s) = Cardinality(AcceptedPositions(s))

\* The i-th accepted position in ascending order, counted from 0 (-1: none).
NthAccepted(s, i) ==
  LET S == AcceptedPositions(s)
      C == { p \in S : Cardinality({ q \in S : q < p }) = i }
  IN IF C = {} THEN 0 - 1 ELSE CHOOSE p \in C : TRUE

Size(a) == GetEntries(adapters[a], src)

Filtered(a) == a \in DOMAIN adapters /\ adapters[a].fUseAccepted

Unfiltered(a) == a \in DOMAIN adapters /\ ~adapters[a].fUseAccepted

\* C1: under SpecBuild the source is the one the adapter was built over.  If
\* that source reports the number of positions it accepts, then for every i
\* with 0 <= i < size(), at(i) is source.at(p_i), p_i the i-th accepted
\* position in ascending order, when filtering is active, and source.at(i)
\* when it is not; a call of at(i) returns that object.
C1_AtMapsThroughAccepted ==
  \A a \in DOMAIN adapters :
    Consistent(src) =>
      /\ \A i \in 0 .. (Size(a) - 1) :
           At(adapters[a], src, i).res =
             IF adapters[a].fUseAccepted THEN ContAt(src, NthAccepted(src, i))
                                         ELSE ContAt(src, i)
      /\ (last.op = "At" /\ last.obj = a /\ last.arg >= 0 /\ last.arg < Size(a)) =>
           last.res = IF adapters[a].fUseAccepted
                        THEN ContAt(src, NthAccepted(src, last.arg))
                        ELSE ContAt(src, last.arg)

\* C1 witness: the predicate accepts exactly the even positions 0 and 2 of
\* three, and at(1) has returned source.at(2).
C1_Witness ==
  /\ Filtered("A") /\ Consistent(src)
  /\ GetNEntries(src) = 3 /\ AcceptedPositions(src) = {0, 2}
  /\ last.op = "At" /\ last.arg = 1 /\ last.res = ContAt(src, 2)

\* C2: in both modes at(position) is the null pointer for every position < 0
\* and every position >= size(); a call with such a position returns null
\* having read neither the table nor the source, and does not fault.
C2_OutOfRangeIsNull ==
  \A a \in DOMAIN adapters :
    /\ \A position \in IndexRange \cup {Size(a)} :
         (position < 0 \/ position >= Size(a)) =>
            At(adapters[a], src, position) = [res |-> kNull, rd |-> {}]
    /\ (last.op = "At" /\ last.obj = a /\ (last.arg < 0 \/ last.arg >= Size(a))) =>
         (last.res = kNull /\ last.rd = {} /\ ~crashed)

\* C2 witness: at(size()) was called on a filtered adapter of two entries.
C2_Witness ==
  /\ Filtered("A") /\ Size("A") = 2
  /\ last.op = "At" /\ last.arg = Size("A") /\ last.res = kNull

StrictlyAscending(arr) ==
  \A k \in 1 .. (Len(arr) - 1) : arr[k] < arr[k + 1]

\* C3: after construction size() is the source's count when filtering is
\* inactive; when it is active size() is the length of the table, which is
\* the source's accepted count, and the table is strictly ascending and holds
\* exactly the accepted positions of the source, one entry each.
C3_TableIsAcceptedPositions ==
  \A a \in DOMAIN adapters :
    (last.op = "Construct" /\ last.obj = a) =>
      IF ~adapters[a].fUseAccepted THEN Size(a) = GetNEntries(src)
      ELSE LET t == adapters[a].fAcceptIndices
           IN /\ Size(a) = Len(t)
              /\ Len(t) = GetNAcceptEntries(src)
              /\ StrictlyAscending(t)
              /\ { t[k] : k \in 1 .. Len(t) } = AcceptedPositions(src)
              /\ Len(t) = Cardinality(AcceptedPositions(src))

\* C4: the construction scan never stores to a table index at or beyond the
\* length of the table, also when the reported accepted count differs from
\* the number of accepted positions (the code raises no ConsistencyError, so a
\* construction that ran made no such store).
C4_NoStoreBeyondTable ==
  last.op = "Construct" => (last.oob = 0 /\ ~crashed)

Running(fwd) == loop.pc # "idle" /\ loop.fwd = fwd

LoopSize == GetEntries(adapters[loop.a], src)

ForwardVisits ==
  Running(TRUE) =>
    /\ Len(loop.pos) <= LoopSize
    /\ \A k \in 1 .. Len(loop.pos) :
         /\ loop.pos[k] = k - 1
         /\ loop.val[k] = At(adapters[loop.a], src, k - 1).res
    /\ loop.pc = "done" => Len(loop.pos) = LoopSize

\* C5: the loop from begin() to end() ends; it has then advanced exactly
\* size() times (not at all when size() is 0), and its k-th visit is of
\* position k and finds at(k), k = 0, 1, ..., size() - 1 in this order.
C5_ForwardTraversal ==
  /\ []ForwardVisits
  /\ (loop.pc = "run" /\ loop.fwd) ~> (loop.pc = "done" /\ loop.fwd)

\* C5 witness: a forward loop over a filtered adapter of two entries, the
\* second of them not at source position 1, is over.
C5_Witness ==
  /\ Running(TRUE) /\ loop.pc = "done"
  /\ Filtered(loop.a) /\ loop.pos = <<0, 1>>
  /\ loop.val = <<ContAt(src, 0), ContAt(src, 2)>> /\ GetNEntries(src) = 3

BackwardVisits ==
  Running(FALSE) =>
    /\ Len(loop.pos) <= LoopSize
    /\ \A k \in 1 .. Len(loop.pos) :
         /\ loop.pos[k] = LoopSize - k
         /\ loop.val[k] = At(adapters[loop.a], src, LoopSize - k).res
    /\ loop.pc = "done" => Len(loop.pos) = LoopSize

\* C6: the loop from rbegin() to rend() ends; it has then advanced exactly
\* size() times (not at all when size() is 0), and its k-th visit, k counted
\* from 0, is of position size() - 1 - k and finds at(size() - 1 - k).
C6_BackwardTraversal ==
  /\ []BackwardVisits
  /\ (loop.pc = "run" /\ ~loop.fwd) ~> (loop.pc = "done" /\ ~loop.fwd)

\* C6 witness: a backward loop over an unfiltered adapter of three entries is
\* over.
C6_Witness ==
  /\ Running(FALSE) /\ loop.pc = "done"
  /\ Unfiltered(loop.a) /\ loop.pos = <<2, 1, 0>>
  /\ loop.val = <<ContAt(src, 2), ContAt(src, 1), ContAt(src, 0)>>

\* The position one step of direction-aware movement leads to.
Ahead(x) == IF x.fForward THEN x.fCurrent + 1 ELSE x.fCurrent - 1
Behind(x) == IF x.fForward THEN x.fCurrent - 1 ELSE x.fCurrent + 1

PostfixReturnsSnapshot ==
  /\ last.op = "PostInc" =>
       /\ iters[last.dst] = last.old
       /\ iters[last.obj] = [last.old EXCEPT !.fCurrent = Ahead(last.old)]
  /\ last.op = "PostDec" =>
       /\ iters[last.dst] = last.old
       /\ iters[last.obj] = [last.old EXCEPT !.fCurrent = Behind(last.old)]

MovingLeavesOthers ==
  \A j \in DOMAIN iters :
    (last'.op \in {"PreInc", "PreDec"} /\ last'.obj # j) =>
      (j \in DOMAIN iters' /\ iters'[j] = iters[j])

\* C7: j = i++ (j = i--) leaves in j an iterator with the position, direction
\* and adapter i had, and leaves i where ++i (--i) would: one position ahead
\* (behind) in its direction; moving i afterwards does not change j.
C7_PostfixSnapshot ==
  /\ []PostfixReturnsSnapshot
  /\ [][MovingLeavesOthers]_vars

\* C7 witness: a backward iterator at position 1 was post-incremented, so the
\* copy returned is at 1 and the original at 0.
C7_Witness ==
  /\ last.op = "PostInc" /\ ~last.old.fForward /\ last.old.fCurrent = 1
  /\ iters[last.dst].fCurrent = 1 /\ iters[last.obj].fCurrent = 0

PrefixMovesByOne ==
  /\ last.op = "PreInc" => iters[last.obj] = [last.old EXCEPT !.fCurrent = Ahead(last.old)]
  /\ last.op = "PreDec" => iters[last.obj] = [last.old EXCEPT !.fCurrent = Behind(last.old)]

RoundTrip ==
  \A i \in DOMAIN iters :
    /\ IterDec(IterInc(iters[i])) = iters[i]
    /\ IterInc(IterDec(iters[i])) = iters[i]

DerefIsAt ==
  last.op = "Deref" =>
    last.res = At(adapters[iters[last.obj].fkData], src, iters[last.obj].fCurrent).res

\* C10: ++i moves the position by exactly +1 on a forward and -1 on a backward
\* iterator, --i by the opposite, at every position (0, -1 and size()
\* included) and without changing direction or adapter; ++ then -- and --
\* then ++ give back the iterator; a dereference returns at(position).
C10_PrefixSteps ==
  PrefixMovesByOne /\ RoundTrip /\ DerefIsAt

\* C10 witness: a forward iterator at -1 was retreated to -2, past the rend
\* position, with no clamping.
C10_Witness ==
  /\ last.op = "PreDec" /\ last.old.fForward /\ last.old.fCurrent = 0 - 1
  /\ iters[last.obj].fCurrent = 0 - 2

SameResults(x, y) ==
  /\ GetEntries(x, src) = GetEntries(y, src)
  /\ \A i \in IndexRange : At(x, src, i).res = At(y, src, i).res

CopyEqualsOriginal ==
  last.op \in {"Copy", "Assign"} =>
    SameResults(adapters[last.obj], adapters[last.dst])

ChangeLeavesOthers ==
  \A a \in DOMAIN adapters :
    /\ (last'.op \in {"Construct", "Copy", "Assign", "AssignFresh"} /\ last'.obj # a) =>
         (a \in DOMAIN adapters' /\ adapters'[a] = adapters[a] /\ src' = src)
    /\ (last'.op = "Assign" /\ last'.obj = a /\ last'.dst = a) =>
         (adapters'[a] = adapters[a] /\ src' = src)

\* C8: after B is copy constructed or assigned from A, B has the size() and
\* the at(i) of A for every i; a later change of B (a reassignment from
\* another adapter included) leaves the table, the flag and so the size()
\* and at(i) of A as they were; self-assignment leaves the adapter as it was.
C8_CopyValueSemantics ==
  /\ []CopyEqualsOriginal
  /\ [][ChangeLeavesOthers]_vars

\* C8 witness: B was reassigned from a third adapter, unfiltered, while A is
\* filtered with a table of two entries.
C8_Witness ==
  /\ last.op = "AssignFresh" /\ last.obj = "B"
  /\ Filtered("A") /\ Len(adapters["A"].fAcceptIndices) = 2
  /\ Unfiltered("B")

TableFrozen ==
  last'.op \in {"GetEntries", "At", "begin", "end", "rbegin", "rend",
                "PreInc", "PreDec", "Deref", "Mutate"} =>
    adapters' = adapters

\* When the constructor returns, the source is as the scan saw it.
TableWithinBuildCount ==
  \A a \in DOMAIN adapters :
    (last.op = "Construct" /\ last.obj = a /\ adapters[a].fUseAccepted) =>
      \A k \in 1 .. Len(adapters[a].fAcceptIndices) :
        adapters[a].fAcceptIndices[k] \in 0 .. (GetNEntries(src) - 1)

NoReadOutsideTable ==
  \A a \in DOMAIN adapters :
    \A i \in IndexRange : "outside" \notin At(adapters[a], src, i).rd

\* C9: a filtered adapter is constructed with every table entry in [0, source
\* count at build time); from then on size(), at(), making, moving and
\* dereferencing iterators and changes of the source leave its table and flag
\* as they are, and no at(i) indexes the table outside its bounds.
C9_StaleTableIsSafe ==
  /\ []TableWithinBuildCount
  /\ []NoReadOutsideTable
  /\ [][TableFrozen]_vars

====
